---- MODULE Spec2Model ----
(***************************************************************************)
(* Billing-workbook ETL: header reconciliation, sheet classification,      *)
(* collision-safe merge, KPI derivation, run-scoped persistence and        *)
(* archival, as implemented in ETL.py, mapping.py and final_2.py.          *)
(***************************************************************************)
EXTENDS Integers, Sequences, FiniteSets, TLC

VARIABLES
    \* header reconciliation (fuzzy_match_header / normalize_headers)
    h_variant, h_role, h_columns, h_cutoff, h_new,
    \* sheet classification (process_single_file / find_sheet)
    s_variant, s_sheet_names, s_processed,
    \* merge engine (safe_merge)
    m_pc, m_processed, m_merged,
    \* KPI engine (calculate_kpis)
    k_pc, k_in, k_out,
    \* directories and database
    input_dir, archive_dir, output_dir, tables, workbook, clock,
    \* process_files / process_single_file, and the loop of final_2.py
    pc, runs, run_id, listing, file_path, merged, move_attempts, files_processed,
    res, response, last_run_id,
    \* history: one record per invocation of process_files
    batches

hdrVars == <<h_variant, h_role, h_columns, h_cutoff, h_new>>
shVars == <<s_variant, s_sheet_names, s_processed>>
mgVars == <<m_pc, m_processed, m_merged>>
kpVars == <<k_pc, k_in, k_out>>
piVars == <<input_dir, archive_dir, output_dir, tables, workbook, clock,
             pc, runs, run_id, listing, file_path, merged, move_attempts,
             files_processed, res, response, last_run_id, batches>>
vars == <<hdrVars, shVars, mgVars, kpVars, piVars>>

(***************************************************************************)
(* Text.  A Python str is a sequence of one-character strings, so that     *)
(* lower(), the `in` substring test, split() and sorted() are computed.    *)
(***************************************************************************)

(* Characters in code-point order (only the relative order is used). *)
Ascii ==
    <<" ", "'", "+", "-", "/", "0", "1", "2", "3", "4", "5", "6", "7", "8", "9", "A", "B", "C", "D", "E", "F", "G", "H", "I", "J", "K", "L", "M", "N", "O", "P", "Q", "R", "S", "T", "U", "V", "W", "X", "Y", "Z", "_", "a", "b", "c", "d", "e", "f", "g", "h", "i", "j", "k", "l", "m", "n", "o", "p", "q", "r", "s", "t", "u", "v", "w", "x", "y", "z">>

UpperCase ==
    <<"A", "B", "C", "D", "E", "F", "G", "H", "I", "J", "K", "L", "M", "N", "O", "P", "Q", "R", "S", "T", "U", "V", "W", "X", "Y", "Z">>

LowerCase ==
    <<"a", "b", "c", "d", "e", "f", "g", "h", "i", "j", "k", "l", "m", "n", "o", "p", "q", "r", "s", "t", "u", "v", "w", "x", "y", "z">>

Ord(c) == CHOOSE i \in DOMAIN Ascii : Ascii[i] = c

Max(a, b) == IF a >= b THEN a ELSE b

(* str.lower() on one character and on a whole str. *)
LowerChar(c) ==
    IF \E i \in DOMAIN UpperCase : UpperCase[i] = c
    THEN LowerCase[CHOOSE i \in DOMAIN UpperCase : UpperCase[i] = c]
    ELSE c

(* A function with domain 1..n as an explicit tuple. *)
AsTuple(f) == f \o <<>>

lower(s) == AsTuple([i \in DOMAIN s |-> LowerChar(s[i])])

(* Python's `sub in s` for two strs. *)
Contains(sub, s) ==
    \E i \in 0..(Len(s) - Len(sub)) : SubSeq(s, i + 1, i + Len(sub)) = sub

(* Python's str comparison a < b: by code point, a proper prefix is less. *)
StrLess(a, b) ==
    \E p \in 1..Len(b) :
        /\ p <= Len(a) + 1
        /\ \A q \in 1..(p - 1) : a[q] = b[q]
        /\ (p = Len(a) + 1 \/ Ord(a[p]) < Ord(b[p]))

(* The k-th smallest member of a finite set of integers. *)
KthSmallest(S, k) == CHOOSE x \in S : Cardinality({y \in S : y < x}) = k - 1

(* str.split(): the maximal runs of non-space characters, in order. *)
split(s) ==
    LET starts == {i \in DOMAIN s : s[i] # " " /\ (i = 1 \/ s[i - 1] = " ")}
        EndOf(i) == CHOOSE e \in i..Len(s) :
                        /\ \A q \in i..e : s[q] # " "
                        /\ (e = Len(s) \/ s[e + 1] = " ")
    IN  AsTuple([k \in 1..Cardinality(starts) |->
            LET i == KthSmallest(starts, k) IN SubSeq(s, i, EndOf(i))])

(* sorted() of a list of strs: each token goes to its rank (equal tokens   *)
(* keep their order).                                                      *)
SortTokens(toks) ==
    LET Rank(i) == 1 + Cardinality({j \in DOMAIN toks :
                        StrLess(toks[j], toks[i]) \/ (toks[j] = toks[i] /\ j < i)})
    IN  AsTuple([r \in DOMAIN toks |-> toks[CHOOSE i \in DOMAIN toks : Rank(i) = r]])

(* " ".join(tokens) *)
RECURSIVE JoinSpace(_)
JoinSpace(toks) ==
    IF toks = <<>> THEN <<>>
    ELSE IF Len(toks) = 1 THEN Head(toks)
    ELSE Head(toks) \o <<" ">> \o JoinSpace(Tail(toks))

(***************************************************************************)
(* rapidfuzz fuzz.token_sort_ratio: both strs have their tokens sorted and *)
(* re-joined, then the normalised Indel similarity                         *)
(*   100 * 2 * LCS(a, b) / (len(a) + len(b))                               *)
(* is taken.  The score is kept as an exact fraction <<num, den>>.         *)
(***************************************************************************)
RowAt(row, j) == IF j = 0 THEN 0 ELSE row[j]

(* One row of the LCS table from the previous one: the character ai is     *)
(* either unused or matched with the last equal character of b[1..j].      *)
LcsRow(prev, ai, b) ==
    AsTuple([j \in DOMAIN b |->
        LET ks == {k \in 1..j : b[k] = ai}
        IN  IF ks = {} THEN prev[j]
            ELSE Max(prev[j],
                     RowAt(prev, (CHOOSE k \in ks : \A m \in ks : m <= k) - 1) + 1)])

RECURSIVE LcsRows(_, _, _)
LcsRows(a, b, prev) ==
    IF a = <<>> THEN prev
    ELSE LcsRows(Tail(a), b, LcsRow(prev, Head(a), b))

LCS(a, b) ==
    IF b = <<>> THEN 0
    ELSE LcsRows(a, b, AsTuple([j \in 1..Len(b) |-> 0]))[Len(b)]

TokenSorted(s) == JoinSpace(SortTokens(split(s)))

token_sort_ratio(s1, s2) ==
    LET a == TokenSorted(s1)
        b == TokenSorted(s2)
    IN  IF Len(a) + Len(b) = 0 THEN <<100, 1>>
        ELSE <<200 * LCS(a, b), Len(a) + Len(b)>>

(* Comparisons of exact fractions with positive denominators. *)
ScoreGreater(x, y) == x[1] * y[2] > y[1] * x[2]
ScoreAtLeast(x, n) == x[1] >= n * x[2]

(* Header texts of the mapping tables, spelled as character sequences. *)
N_ARBalance ==
    <<"A", "R", " ", "B", "a", "l", "a", "n", "c", "e">>
N_AccountNum ==
    <<"A", "c", "c", "o", "u", "n", "t", " ", "N", "u", "m">>
N_AdjustmentAmount ==
    <<"A", "d", "j", "u", "s", "t", "m", "e", "n", "t", " ", "A", "m", "o", "u", "n", "t">>
N_AdjustmentDescription ==
    <<"A", "d", "j", "u", "s", "t", "m", "e", "n", "t", " ", "D", "e", "s", "c", "r", "i", "p", "t", "i", "o", "n">>
N_AdjustmentEntryDate ==
    <<"A", "d", "j", "u", "s", "t", "m", "e", "n", "t", " ", "E", "n", "t", "r", "y", " ", "D", "a", "t", "e">>
N_AgingBucket ==
    <<"A", "g", "i", "n", "g", " ", "B", "u", "c", "k", "e", "t">>
N_AgingRange ==
    <<"A", "g", "i", "n", "g", " ", "R", "a", "n", "g", "e">>
N_Amount ==
    <<"A", "m", "o", "u", "n", "t">>
N_BatchDate ==
    <<"B", "a", "t", "c", "h", " ", "D", "a", "t", "e">>
N_BilledAmount ==
    <<"B", "i", "l", "l", "e", "d", " ", "A", "m", "o", "u", "n", "t">>
N_ChargeEntryDate ==
    <<"C", "h", "a", "r", "g", "e", " ", "E", "n", "t", "r", "y", " ", "D", "a", "t", "e">>
N_ClaimNo ==
    <<"C", "l", "a", "i", "m", " ", "N", "o">>
N_DOS ==
    <<"D", "O", "S">>
N_Description ==
    <<"D", "e", "s", "c", "r", "i", "p", "t", "i", "o", "n">>
N_FC ==
    <<"F", "C">>
N_FacilityName ==
    <<"F", "a", "c", "i", "l", "i", "t", "y", " ", "N", "a", "m", "e">>
N_FinancialClass ==
    <<"F", "i", "n", "a", "n", "c", "i", "a", "l", " ", "C", "l", "a", "s", "s">>
N_FinancialStatus ==
    <<"F", "i", "n", "a", "n", "c", "i", "a", "l", " ", "S", "t", "a", "t", "u", "s">>
N_Group ==
    <<"G", "r", "o", "u", "p">>
N_Insurance ==
    <<"I", "n", "s", "u", "r", "a", "n", "c", "e">>
N_PaidAmount ==
    <<"P", "a", "i", "d", " ", "A", "m", "o", "u", "n", "t">>
N_PayerInsurance ==
    <<"P", "a", "y", "e", "r", "/", "I", "n", "s", "u", "r", "a", "n", "c", "e">>
N_PaymentEntryDate ==
    <<"P", "a", "y", "m", "e", "n", "t", " ", "E", "n", "t", "r", "y", " ", "D", "a", "t", "e">>
N_PerformingProvider ==
    <<"P", "e", "r", "f", "o", "r", "m", "i", "n", "g", " ", "P", "r", "o", "v", "i", "d", "e", "r">>
N_ProviderName ==
    <<"P", "r", "o", "v", "i", "d", "e", "r", " ", "N", "a", "m", "e">>
N_RcvblStatus ==
    <<"R", "c", "v", "b", "l", " ", "S", "t", "a", "t", "u", "s">>
N_RegDate ==
    <<"R", "e", "g", " ", "D", "a", "t", "e">>
N_ResponsibleProvider ==
    <<"R", "e", "s", "p", "o", "n", "s", "i", "b", "l", "e", " ", "P", "r", "o", "v", "i", "d", "e", "r">>
N_SvcDate ==
    <<"S", "v", "c", " ", "D", "a", "t", "e">>

(* ETL.py sheet_mappings: role -> ordered (vendor header, canonical name) pairs. *)
sheet_mappings ==
    ("Charges" :> <<
        <<N_AccountNum, N_ClaimNo>>,
        <<N_SvcDate, N_DOS>>,
        <<N_BatchDate, N_ChargeEntryDate>>,
        <<N_Amount, N_BilledAmount>>,
        <<N_ResponsibleProvider, N_ProviderName>>,
        <<N_Insurance, N_PayerInsurance>>,
        <<N_Group, N_FacilityName>>,
        <<N_FC, N_FinancialClass>>
    >>
    @@ "Payment" :> <<
        <<N_AccountNum, N_ClaimNo>>,
        <<N_SvcDate, N_DOS>>,
        <<N_Amount, N_PaidAmount>>,
        <<N_Insurance, N_PayerInsurance>>,
        <<N_ResponsibleProvider, N_ProviderName>>,
        <<N_BatchDate, N_PaymentEntryDate>>,
        <<N_Group, N_FacilityName>>,
        <<N_FC, N_FinancialClass>>
    >>
    @@ "Adjustment" :> <<
        <<N_AccountNum, N_ClaimNo>>,
        <<N_SvcDate, N_DOS>>,
        <<N_Amount, N_AdjustmentAmount>>,
        <<N_Description, N_AdjustmentDescription>>,
        <<N_Insurance, N_PayerInsurance>>,
        <<N_ResponsibleProvider, N_ProviderName>>,
        <<N_BatchDate, N_AdjustmentEntryDate>>,
        <<N_Group, N_FacilityName>>,
        <<N_FC, N_FinancialClass>>
    >>
    @@ "Pending AR" :> <<
        <<N_AccountNum, N_ClaimNo>>,
        <<N_RegDate, N_ChargeEntryDate>>,
        <<N_Amount, N_ARBalance>>,
        <<N_AgingBucket, N_AgingRange>>,
        <<N_RcvblStatus, N_FinancialStatus>>,
        <<N_Insurance, N_PayerInsurance>>,
        <<N_ResponsibleProvider, N_ProviderName>>,
        <<N_Group, N_FacilityName>>,
        <<N_FC, N_FinancialClass>>
    >>)

(* mapping.py sheet_mappings, keyed here by the role of each "... Jul'25" sheet. *)
sheet_mappings_jul25 ==
    ("Charges" :> <<
        <<N_AccountNum, N_ClaimNo>>,
        <<N_SvcDate, N_DOS>>,
        <<N_BatchDate, N_ChargeEntryDate>>,
        <<N_Amount, N_BilledAmount>>,
        <<N_PerformingProvider, N_ProviderName>>,
        <<N_Insurance, N_PayerInsurance>>,
        <<N_Group, N_FacilityName>>,
        <<N_FC, N_FinancialClass>>
    >>
    @@ "Payment" :> <<
        <<N_AccountNum, N_ClaimNo>>,
        <<N_SvcDate, N_DOS>>,
        <<N_Amount, N_PaidAmount>>,
        <<N_Insurance, N_PayerInsurance>>,
        <<N_PerformingProvider, N_ProviderName>>,
        <<N_BatchDate, N_PaymentEntryDate>>,
        <<N_Group, N_FacilityName>>,
        <<N_FC, N_FinancialClass>>
    >>
    @@ "Adjustment" :> <<
        <<N_AccountNum, N_ClaimNo>>,
        <<N_SvcDate, N_DOS>>,
        <<N_Amount, N_AdjustmentAmount>>,
        <<N_Description, N_AdjustmentDescription>>,
        <<N_Insurance, N_PayerInsurance>>,
        <<N_PerformingProvider, N_ProviderName>>,
        <<N_BatchDate, N_AdjustmentEntryDate>>,
        <<N_Group, N_FacilityName>>,
        <<N_FC, N_FinancialClass>>
    >>
    @@ "Pending AR" :> <<
        <<N_AccountNum, N_ClaimNo>>,
        <<N_RegDate, N_ChargeEntryDate>>,
        <<N_Amount, N_ARBalance>>,
        <<N_AgingBucket, N_AgingRange>>,
        <<N_RcvblStatus, N_FinancialStatus>>,
        <<N_Insurance, N_PayerInsurance>>,
        <<N_PerformingProvider, N_ProviderName>>,
        <<N_Group, N_FacilityName>>,
        <<N_FC, N_FinancialClass>>
    >>)

(***************************************************************************)
(* Header reconciliation.                                                  *)
(***************************************************************************)
Roles == {"Charges", "Payment", "Adjustment", "Pending AR"}

(* The default of fuzzy_match_header's score_cutoff parameter. *)
ScoreCutoff == 85

(* Python's None. *)
NoneVal == <<"None">>

(* mapping.keys(), in declaration order; mapping.get(key, default). *)
MappingKeys(mapping) == AsTuple([i \in DOMAIN mapping |-> mapping[i][1]])

InKeys(key, mapping) == \E i \in DOMAIN mapping : mapping[i][1] = key

MappingGet(mapping, key, default) ==
    IF InKeys(key, mapping)
    THEN mapping[CHOOSE i \in DOMAIN mapping : mapping[i][1] = key][2]
    ELSE default

(* rapidfuzz process.extractOne(query, choices, scorer=token_sort_ratio):   *)
(* the choices are scored in order and a later choice replaces the best     *)
(* one only with a strictly greater score.                                  *)
RECURSIVE ExtractFrom(_, _, _, _)
ExtractFrom(query, choices, i, best) ==
    IF i > Len(choices) THEN best
    ELSE LET sc == token_sort_ratio(query, choices[i])
         IN  IF ScoreGreater(sc, best.score)
             THEN ExtractFrom(query, choices, i + 1, [match |-> choices[i], score |-> sc])
             ELSE ExtractFrom(query, choices, i + 1, best)

extractOne(query, choices) ==
    ExtractFrom(query, choices, 2,
                [match |-> choices[1], score |-> token_sort_ratio(query, choices[1])])

(* A cutoff test that renames only strictly above the cutoff. *)
fuzzy_match_header_strict(col_name, mapping_keys, score_cutoff) ==
    LET r == extractOne(col_name, mapping_keys)
    IN  IF ~ScoreAtLeast(r.score, score_cutoff) \/ r.score[1] = score_cutoff * r.score[2]
        THEN NoneVal ELSE r.match

(* ETL.py fuzzy_match_header *)
fuzzy_match_header(col_name, mapping_keys, score_cutoff) ==
    LET r == extractOne(col_name, mapping_keys)
    IN  IF ScoreAtLeast(r.score, score_cutoff) THEN r.match ELSE NoneVal

(* normalize_headers without the `or col` fallback of the lookup key. *)
normalize_headers_nofallback(columns, mapping, score_cutoff) ==
    [i \in DOMAIN columns |->
        MappingGet(mapping,
                   fuzzy_match_header(columns[i], MappingKeys(mapping), score_cutoff),
                   columns[i])]

(* ETL.py normalize_headers, on df.columns; the program always passes the  *)
(* default score_cutoff, which is a parameter here.                        *)
normalize_headers(columns, mapping, score_cutoff) ==
    [i \in DOMAIN columns |->
        LET m         == fuzzy_match_header(columns[i], MappingKeys(mapping), score_cutoff)
            match_key == IF m = NoneVal \/ m = <<>> THEN columns[i] ELSE m
        IN  MappingGet(mapping, match_key, columns[i])]

(* mapping.py fuzzy_match_header: an exact key is returned before scoring. *)
mapping_fuzzy_match_header(col_name, mapping_keys, score_cutoff) ==
    IF \E i \in DOMAIN mapping_keys : mapping_keys[i] = col_name THEN col_name
    ELSE LET r == extractOne(col_name, mapping_keys)
         IN  IF ScoreAtLeast(r.score, score_cutoff) THEN r.match ELSE NoneVal

(* mapping.py normalize_sheet_headers *)
normalize_sheet_headers(columns, mapping, score_cutoff) ==
    [i \in DOMAIN columns |->
        LET matched_key == mapping_fuzzy_match_header(columns[i], MappingKeys(mapping),
                                                      score_cutoff)
        IN  IF matched_key # NoneVal /\ matched_key # <<>> /\ InKeys(matched_key, mapping)
            THEN MappingGet(mapping, matched_key, columns[i])
            ELSE columns[i]]

(* Header rows of incoming sheets (df.columns) the reconciler is run on. *)
H_Amount ==
    <<"A", "m", "o", "u", "n", "t">>
H_amount_lc ==
    <<"a", "m", "o", "u", "n", "t">>
H_Amounts ==
    <<"A", "m", "o", "u", "n", "t", "s">>
H_ProviderResponsible ==
    <<"P", "r", "o", "v", "i", "d", "e", "r", " ", "R", "e", "s", "p", "o", "n", "s", "i", "b", "l", "e">>
H_ResponsibleProvxyzr ==
    <<"R", "e", "s", "p", "o", "n", "s", "i", "b", "l", "e", " ", "P", "r", "o", "v", "x", "y", "z", "r">>
H_AcctNum ==
    <<"A", "c", "c", "t", " ", "N", "u", "m">>
H_AccountNo ==
    <<"A", "c", "c", "o", "u", "n", "t", " ", "N", "o">>
H_Notes ==
    <<"N", "o", "t", "e", "s">>
H_BatchDt ==
    <<"B", "a", "t", "c", "h", " ", "D", "t">>
H_Insurer ==
    <<"I", "n", "s", "u", "r", "e", "r">>

HeaderRows ==
    { <<N_AccountNum, N_SvcDate, N_Amount, N_Insurance>>,
      <<H_AcctNum, H_Amounts, H_ResponsibleProvxyzr, H_Notes>>,
      <<H_AccountNo, H_amount_lc, H_ProviderResponsible, N_FC>>,
      <<N_Description, N_RegDate, N_AgingBucket, N_Group>>,
      <<N_ClaimNo, H_BatchDt, H_Insurer>>,
      <<H_Amount, N_ResponsibleProvider, H_Amount>> }

(* Values of score_cutoff: accept everything, the default, above any score. *)
Cutoffs == {0, ScoreCutoff, 101}

HdrIdle ==
    /\ h_variant = "idle"
    /\ h_role = "Charges"
    /\ h_columns = <<>>
    /\ h_cutoff = ScoreCutoff
    /\ h_new = <<>>

HdrInit ==
    /\ h_variant = "input"
    /\ h_role \in Roles
    /\ h_columns \in HeaderRows
    /\ h_cutoff \in Cutoffs
    /\ h_new = <<>>

(* ETL.py normalize_headers(df, mapping) *)
NormalizeHeaders ==
    /\ h_variant = "input"
    /\ h_variant' = "ETL"
    /\ h_new' = normalize_headers(h_columns, sheet_mappings[h_role], h_cutoff)
    /\ UNCHANGED <<h_role, h_columns, h_cutoff>>
    /\ UNCHANGED <<shVars, mgVars, kpVars, piVars>>

(* mapping.py normalize_sheet_headers(df, mapping) *)
NormalizeSheetHeaders ==
    /\ h_variant = "input"
    /\ h_variant' = "mapping"
    /\ h_new' = normalize_sheet_headers(h_columns, sheet_mappings_jul25[h_role], h_cutoff)
    /\ UNCHANGED <<h_role, h_columns, h_cutoff>>
    /\ UNCHANGED <<shVars, mgVars, kpVars, piVars>>

HdrNext == NormalizeHeaders \/ NormalizeSheetHeaders

(* The mapping table a reconciled header row was matched against. *)
HdrMapping ==
    IF h_variant = "mapping" THEN sheet_mappings_jul25[h_role] ELSE sheet_mappings[h_role]

HdrDone == h_variant \in {"ETL", "mapping"}

(* The greatest similarity of col against the keys, and the first key that *)
(* reaches it.                                                             *)
IsBestKey(col, mapping, i) ==
    /\ \A j \in DOMAIN mapping :
          ~ScoreGreater(token_sort_ratio(col, mapping[j][1]),
                        token_sort_ratio(col, mapping[i][1]))
    /\ \A j \in 1..(i - 1) :
          ScoreGreater(token_sort_ratio(col, mapping[i][1]),
                       token_sort_ratio(col, mapping[j][1]))

(* C5: under the default cutoff, a column whose best score against the     *)
(* mapping keys is >= 85 is renamed to the canonical name of the best key, *)
(* and a column whose best score is < 85 keeps its name.                   *)
C5_CutoffRename ==
    (HdrDone /\ h_cutoff = ScoreCutoff) =>
        \A c \in DOMAIN h_columns :
            \A i \in DOMAIN HdrMapping :
                IsBestKey(h_columns[c], HdrMapping, i) =>
                    IF ScoreAtLeast(token_sort_ratio(h_columns[c], HdrMapping[i][1]), 85)
                    THEN h_new[c] = HdrMapping[i][2]
                    ELSE h_new[c] = h_columns[c]

(* A header scoring exactly 85 was renamed and one scoring below was kept. *)
C5_Witness ==
    /\ h_variant = "ETL" /\ h_cutoff = ScoreCutoff /\ h_role = "Charges"
    /\ h_columns = <<H_AcctNum, H_Amounts, H_ResponsibleProvxyzr, H_Notes>>
    /\ token_sort_ratio(H_ResponsibleProvxyzr, N_ResponsibleProvider) = <<3400, 40>>
    /\ ~ScoreAtLeast(token_sort_ratio(H_AcctNum, N_AccountNum), 85)
    /\ ScoreAtLeast(token_sort_ratio(H_AcctNum, N_AccountNum), 84)
    /\ h_new = <<H_AcctNum, N_BilledAmount, N_ProviderName, H_Notes>>

(* C6: a column equal to a mapping key is renamed to that key's canonical  *)
(* name whatever the value of the score cutoff.                            *)
C6_ExactMatch ==
    HdrDone =>
        \A c \in DOMAIN h_columns :
            \A i \in DOMAIN HdrMapping :
                h_columns[c] = HdrMapping[i][1] => h_new[c] = HdrMapping[i][2]

(* An exact key was renamed under a cutoff no score reaches. *)
C6_Witness ==
    /\ h_variant = "ETL" /\ h_cutoff = 101 /\ h_role = "Payment"
    /\ h_columns[3] = N_Amount
    /\ h_new[3] = N_PaidAmount
(***************************************************************************)
(* Sheet classification.                                                   *)
(***************************************************************************)

(* The keys of sheet_mappings in declaration order, and their text. *)
RoleOrder == <<"Charges", "Payment", "Adjustment", "Pending AR">>

RoleText ==
    ("Charges" :> <<"C", "h", "a", "r", "g", "e", "s">>)
    @@ ("Payment" :> <<"P", "a", "y", "m", "e", "n", "t">>)
    @@ ("Adjustment" :> <<"A", "d", "j", "u", "s", "t", "m", "e", "n", "t">>)
    @@ ("Pending AR" :> <<"P", "e", "n", "d", "i", "n", "g", " ", "A", "R">>)

(* The keywords final_2.py passes to find_sheet. *)
Keyword ==
    ("Charges" :> <<"c", "h", "a", "r", "g", "e", "s">>)
    @@ ("Payment" :> <<"p", "a", "y", "m", "e", "n", "t">>)
    @@ ("Adjustment" :> <<"a", "d", "j", "u", "s", "t", "m", "e", "n", "t">>)
    @@ ("Pending AR" :> <<"p", "e", "n", "d", "i", "n", "g", " ", "a", "r">>)

(* Sheet names of incoming workbooks. *)
SH_ChargesQ1 ==
    <<"C", "h", "a", "r", "g", "e", "s", " ", "Q", "1">>
SH_CHARGESold ==
    <<"C", "H", "A", "R", "G", "E", "S", " ", "o", "l", "d">>
SH_PaymentQ1 ==
    <<"P", "a", "y", "m", "e", "n", "t", " ", "Q", "1">>
SH_AdjustmentQ1 ==
    <<"A", "d", "j", "u", "s", "t", "m", "e", "n", "t", " ", "Q", "1">>
SH_PendingARQ1 ==
    <<"P", "e", "n", "d", "i", "n", "g", " ", "A", "R", " ", "Q", "1">>
SH_PaymentAdjustments ==
    <<"P", "a", "y", "m", "e", "n", "t", " ", "A", "d", "j", "u", "s", "t", "m", "e", "n", "t", "s">>
SH_Summary ==
    <<"S", "u", "m", "m", "a", "r", "y">>

SheetNames ==
    { SH_ChargesQ1, SH_CHARGESold, SH_PaymentQ1, SH_AdjustmentQ1, SH_PendingARQ1,
      SH_PaymentAdjustments, SH_Summary }

(* `key.lower() in sheet.lower()` *)
KeyInSheet(key, sheet) == Contains(lower(key), lower(sheet))

(* ETL.py process_single_file, the loop over xl.sheet_names: a sheet goes   *)
(* to the first key of sheet_mappings its name contains (break), and        *)
(* processed[key] is assigned again by every later sheet of the same key.   *)
(* processed maps a role to the index of its sheet, 0 when it has none.     *)
RECURSIVE ClassifyFrom(_, _, _)
ClassifyFrom(sheet_names, i, processed) ==
    IF i > Len(sheet_names) THEN processed
    ELSE LET hits == {k \in DOMAIN RoleOrder :
                         KeyInSheet(RoleText[RoleOrder[k]], sheet_names[i])}
         IN  IF hits = {} THEN ClassifyFrom(sheet_names, i + 1, processed)
             ELSE LET key == RoleOrder[CHOOSE k \in hits : \A m \in hits : k <= m]
                  IN  ClassifyFrom(sheet_names, i + 1, [processed EXCEPT ![key] = i])

Classify(sheet_names) == ClassifyFrom(sheet_names, 1, [r \in Roles |-> 0])

(* A required-sheet test that lets every workbook through. *)
MissingRoles_none(processed) == {}

(* `required - set(processed)` *)
MissingRoles(processed) == {r \in Roles : processed[r] = 0}

(* final_2.py find_sheet: the index of the first sheet containing keyword,  *)
(* 0 for None.                                                              *)
find_sheet(sheets, keyword) ==
    LET hits == {i \in DOMAIN sheets : Contains(lower(keyword), lower(sheets[i]))}
    IN  IF hits = {} THEN 0 ELSE CHOOSE i \in hits : \A m \in hits : i <= m

MaxSheets == 4

SheetLists == UNION {[1..n -> SheetNames] : n \in 0..MaxSheets}

ShIdle ==
    /\ s_variant = "idle"
    /\ s_sheet_names = <<>>
    /\ s_processed = [r \in Roles |-> 0]

ShInit ==
    /\ s_variant = "input"
    /\ s_sheet_names \in SheetLists
    /\ s_processed = [r \in Roles |-> 0]

(* ETL.py lines 284-295 *)
ClassifySheets ==
    /\ s_variant = "input"
    /\ s_variant' = "ETL"
    /\ s_processed' = Classify(s_sheet_names)
    /\ UNCHANGED s_sheet_names
    /\ UNCHANGED <<hdrVars, mgVars, kpVars, piVars>>

(* final_2.py lines 57-60 *)
FindSheets ==
    /\ s_variant = "input"
    /\ s_variant' = "final_2"
    /\ s_processed' = [r \in Roles |-> find_sheet(s_sheet_names, Keyword[r])]
    /\ UNCHANGED s_sheet_names
    /\ UNCHANGED <<hdrVars, mgVars, kpVars, piVars>>

ShNext == ClassifySheets \/ FindSheets

(* The first sheet, in workbook order, whose name contains the role's      *)
(* keyword as a case-insensitive substring; 0 when there is none.          *)
FirstSheetOf(sheet_names, r) ==
    IF \E i \in DOMAIN sheet_names : KeyInSheet(RoleText[r], sheet_names[i])
    THEN CHOOSE i \in DOMAIN sheet_names :
            /\ KeyInSheet(RoleText[r], sheet_names[i])
            /\ \A j \in 1..(i - 1) : ~KeyInSheet(RoleText[r], sheet_names[j])
    ELSE 0

(* C4: the sheet used for each role is the first sheet, in workbook order, *)
(* whose name contains the role's keyword (case-insensitive).              *)
C4_FirstSheetPerRole ==
    s_variant = "ETL" =>
        \A r \in Roles : s_processed[r] = FirstSheetOf(s_sheet_names, r)

(***************************************************************************)
(* Merge engine.  A table (DataFrame) is [columns, rows]; a row is the     *)
(* tuple of its cells in column order.  A cell of the join key is a claim  *)
(* number; any other cell records the sheet and the row it was read from,  *)
(* or is NaN.                                                              *)
(***************************************************************************)
NaN == [src |-> "NaN", i |-> 0]

Cell(src, i) == [src |-> src, i |-> i]

ColIndex(columns, c) == CHOOSE k \in DOMAIN columns : columns[k] = c

HasColumn(df, c) == \E k \in DOMAIN df.columns : df.columns[k] = c

(* The members of a finite set of integers in increasing order. *)
Ascending(S) == AsTuple([k \in 1..Cardinality(S) |-> KthSmallest(S, k)])

(* DataFrame.drop(columns=cols) *)
Drop(df, cols) ==
    LET keep == Ascending({k \in DOMAIN df.columns :
                              \A d \in DOMAIN cols : cols[d] # df.columns[k]})
    IN  [columns |-> AsTuple([k \in DOMAIN keep |-> df.columns[keep[k]]]),
         rows    |-> AsTuple([r \in DOMAIN df.rows |->
                        AsTuple([k \in DOMAIN keep |-> df.rows[r][keep[k]]])])]

(* left.merge(right, on=on_col, how="left"), right sharing only on_col with *)
(* left: every left row, in order, once per right row of the same key (in   *)
(* the right table's order), or once padded with NaN when there is none.    *)
RECURSIVE LeftJoinRows(_, _, _, _, _, _)
LeftJoinRows(left_rows, lk, right_rows, rk, pad, n) ==
    IF n > Len(left_rows) THEN <<>>
    ELSE LET l       == left_rows[n]
             matches == Ascending({j \in DOMAIN right_rows : right_rows[j][rk] = l[lk]})
             Rest(r) == SubSeq(r, 1, rk - 1) \o SubSeq(r, rk + 1, Len(r))
             joined  == IF matches = <<>> THEN << l \o pad >>
                        ELSE AsTuple([m \in DOMAIN matches |->
                                         l \o Rest(right_rows[matches[m]])])
         IN  joined \o LeftJoinRows(left_rows, lk, right_rows, rk, pad, n + 1)

LeftMerge(left_df, right_df, on_col) ==
    LET lk   == ColIndex(left_df.columns, on_col)
        rk   == ColIndex(right_df.columns, on_col)
        rest == SubSeq(right_df.columns, 1, rk - 1)
                    \o SubSeq(right_df.columns, rk + 1, Len(right_df.columns))
        pad  == AsTuple([k \in DOMAIN rest |-> NaN])
    IN  [columns |-> left_df.columns \o rest,
         rows    |-> LeftJoinRows(left_df.rows, lk, right_df.rows, rk, pad, 1)]

(* merge raises KeyError when on_col is not a column of both tables. *)
MergeRaises(left_df, right_df, on_col) ==
    ~HasColumn(left_df, on_col) \/ ~HasColumn(right_df, on_col)

(* The columns of right_df also in left_df, the join key excepted. *)
DupCols(left_df, right_df, on_col) ==
    LET ks == Ascending({k \in DOMAIN right_df.columns :
                            /\ HasColumn(left_df, right_df.columns[k])
                            /\ right_df.columns[k] # on_col})
    IN  AsTuple([d \in DOMAIN ks |-> right_df.columns[ks[d]]])

(* A merge in which the incoming table's colliding columns win. *)
safe_merge_right_wins(left_df, right_df, on_col) ==
    LeftMerge(Drop(left_df, DupCols(left_df, right_df, on_col)), right_df, on_col)

(* ETL.py safe_merge *)
safe_merge(left_df, right_df, on_col) ==
    LET dup_cols == DupCols(left_df, right_df, on_col)
        right    == IF dup_cols # <<>> THEN Drop(right_df, dup_cols) ELSE right_df
    IN  LeftMerge(left_df, right, on_col)

(* Sheets after header reconciliation, built from the claim numbers of     *)
(* their rows.                                                             *)
MkTable(src, columns, keys) ==
    [columns |-> columns,
     rows    |-> AsTuple([r \in DOMAIN keys |->
                    AsTuple([k \in DOMAIN columns |->
                        IF columns[k] = N_ClaimNo THEN keys[r] ELSE Cell(src, r)])])]

ClaimNos == {1, 2}

MaxRows == 2

KeySeqs == UNION {[1..n -> ClaimNos] : n \in 0..MaxRows}

ChargesTables ==
    {MkTable("Charges", cols, keys) :
        cols \in { <<N_ClaimNo, N_PayerInsurance, N_BilledAmount>>,
                   <<N_ClaimNo, N_BilledAmount>> },
        keys \in KeySeqs}

PaymentTables ==
    {MkTable("Payment", <<N_ClaimNo, N_DOS, N_PaidAmount, N_PayerInsurance>>, keys) :
        keys \in KeySeqs}
    \cup {MkTable("Payment", <<N_PaidAmount, N_PayerInsurance>>, <<1>>)}

AdjustmentTables ==
    {MkTable("Adjustment", <<N_PayerInsurance, N_ClaimNo, N_DOS, N_AdjustmentAmount>>, keys) :
        keys \in KeySeqs}

PendingARTables ==
    {MkTable("Pending AR", <<N_ClaimNo, N_ARBalance, N_PayerInsurance, N_PaidAmount>>, keys) :
        keys \in {<<>>, <<1>>, <<2, 1>>}}

MgIdle ==
    /\ m_pc = "idle"
    /\ m_processed = <<>>
    /\ m_merged = <<>>

MgInit ==
    /\ m_pc = "Charges"
    /\ \E c \in ChargesTables, p \in PaymentTables, a \in AdjustmentTables,
          r \in PendingARTables :
          /\ m_processed = ("Charges" :> c) @@ ("Payment" :> p)
                              @@ ("Adjustment" :> a) @@ ("Pending AR" :> r)
          /\ m_merged = c

(* One `merged = safe_merge(merged, processed[role], "Claim No")`; a       *)
(* KeyError leaves process_single_file through its except clause.          *)
MergeStep(prev, role) ==
    /\ m_pc = prev
    /\ IF MergeRaises(m_merged, m_processed[role], N_ClaimNo)
       THEN m_pc' = "KeyError" /\ UNCHANGED m_merged
       ELSE /\ m_pc' = role
            /\ m_merged' = safe_merge(m_merged, m_processed[role], N_ClaimNo)
    /\ UNCHANGED m_processed
    /\ UNCHANGED <<hdrVars, shVars, kpVars, piVars>>

(* ETL.py line 303 *)
MergePayment == MergeStep("Charges", "Payment")

(* ETL.py line 304 *)
MergeAdjustment == MergeStep("Payment", "Adjustment")

(* ETL.py line 305 *)
MergePendingAR == MergeStep("Adjustment", "Pending AR")

MgNext == MergePayment \/ MergeAdjustment \/ MergePendingAR

(* C1: after the three joins the result has as many rows as Charges. *)
C1_RowCount ==
    m_pc = "Pending AR" => Len(m_merged.rows) = Len(m_processed["Charges"].rows)

(* The first table, in merge order, that has column c. *)
FirstTableWith(c) ==
    RoleOrder[CHOOSE k \in DOMAIN RoleOrder :
                /\ HasColumn(m_processed[RoleOrder[k]], c)
                /\ \A j \in 1..(k - 1) : ~HasColumn(m_processed[RoleOrder[j]], c)]

(* C2: after the three joins every column name of the four tables occurs   *)
(* once in the result, the join key included, and every cell of a non-key  *)
(* column is NaN or comes from the first table, in merge order, that has   *)
(* that column; a Charges cell is the one of the row's own Charges row.    *)
C2_DrivingTableWins ==
    m_pc = "Pending AR" =>
        /\ \A r \in Roles : \A k \in DOMAIN m_processed[r].columns :
              Cardinality({n \in DOMAIN m_merged.columns :
                              m_merged.columns[n] = m_processed[r].columns[k]}) = 1
        /\ \A n \in DOMAIN m_merged.columns :
              m_merged.columns[n] # N_ClaimNo =>
                  \A x \in DOMAIN m_merged.rows :
                      LET cell == m_merged.rows[x][n]
                          from == FirstTableWith(m_merged.columns[n])
                      IN  /\ cell = NaN \/ cell.src = from
                          /\ from = "Charges" =>
                                /\ cell # NaN
                                /\ m_processed["Charges"].rows[cell.i][ColIndex(m_processed["Charges"].columns, N_ClaimNo)]
                                       = m_merged.rows[x][ColIndex(m_merged.columns, N_ClaimNo)]

(* Charges and Payment both had a Payer/Insurance column with a matching   *)
(* claim, and the merged row carries the Charges cell.                     *)
C2_Witness ==
    /\ m_pc = "Pending AR"
    /\ HasColumn(m_processed["Charges"], N_PayerInsurance)
    /\ \E x \in DOMAIN m_merged.rows :
          /\ m_merged.rows[x][ColIndex(m_merged.columns, N_PayerInsurance)].src = "Charges"
          /\ m_merged.rows[x][ColIndex(m_merged.columns, N_PaidAmount)].src = "Payment"

(***************************************************************************)
(* KPI engine.  Cells of the merged table are typed: a number (held in     *)
(* hundredths, so that round(x, 2) is exact), a date (a day number), a     *)
(* text, or null (NaN, NaT, None, pd.NA).                                  *)
(***************************************************************************)
KNum(n) == [t |-> "num",  n |-> n, s |-> <<>>]
KDate(d) == [t |-> "date", n |-> d, s |-> <<>>]
KStr(s) == [t |-> "str",  n |-> 0, s |-> s]
KNull == [t |-> "null", n |-> 0, s |-> <<>>]

K_ChargeLag ==
    <<"C", "h", "a", "r", "g", "e", " ", "L", "a", "g", " ", "(", "d", "a", "y", "s", ")">>
K_BillingLag ==
    <<"B", "i", "l", "l", "i", "n", "g", " ", "L", "a", "g", " ", "(", "d", "a", "y", "s", ")">>
K_GCR ==
    <<"G", "C", "R", " ", "(", "%", ")">>
K_NCR ==
    <<"N", "C", "R", " ", "(", "%", ")">>
K_CCR ==
    <<"C", "C", "R", " ", "(", "%", ")">>
K_ARDays ==
    <<"A", "R", " ", "D", "a", "y", "s">>
K_AR90 ==
    <<"9", "0", "+", " ", "A", "R", " ", "D", "a", "y", "s", " ", "(", "%", ")">>
K_DenialRate ==
    <<"D", "e", "n", "i", "a", "l", " ", "R", "a", "t", "e", " ", "(", "%", ")">>

Digits ==
    <<"0", "1", "2", "3", "4", "5", "6", "7", "8", "9">>

IsDigit(c) == \E d \in DOMAIN Digits : Digits[d] = c

DigitVal(c) == (CHOOSE d \in DOMAIN Digits : Digits[d] = c) - 1

RECURSIVE DecimalValue(_)
DecimalValue(s) ==
    IF s = <<>> THEN 0
    ELSE 10 * DecimalValue(SubSeq(s, 1, Len(s) - 1)) + DigitVal(s[Len(s)])

(* pd.to_numeric(x, errors="coerce") on one cell: a number stays, a text   *)
(* of decimal digits is its value, anything else is NaN.                   *)
to_numeric(cell) ==
    IF cell.t = "num" THEN cell
    ELSE IF cell.t = "str" /\ cell.s # <<>> /\ \A k \in DOMAIN cell.s : IsDigit(cell.s[k])
         THEN KNum(100 * DecimalValue(cell.s))
         ELSE KNull

fillna(cell, n) == IF cell.t = "null" THEN KNum(n) ELSE cell

(* pd.to_numeric(..., errors="coerce").fillna(0) *)
Coerce(cell) == fillna(to_numeric(cell), 0)

(* Series.replace(0, pd.NA) *)
ZeroToNA(cell) == IF cell.t = "num" /\ cell.n = 0 THEN KNull ELSE cell

(* n / d rounded to the nearest integer, a tie to the even one (numpy's    *)
(* round); d # 0.                                                          *)
RoundDiv(n, d) ==
    LET nn == IF d < 0 THEN -n ELSE n
        dd == IF d < 0 THEN -d ELSE d
        q  == nn \div dd
        r  == nn - q * dd
    IN  IF 2 * r < dd THEN q
        ELSE IF 2 * r > dd THEN q + 1
        ELSE IF q % 2 = 0 THEN q ELSE q + 1

(* ((paid / denominator.replace(0, pd.NA)) * 100) without the fillna(0). *)
RatioCell_nofill(paid, denominator) ==
    LET d == ZeroToNA(denominator)
    IN  IF d.t = "null" THEN KNull ELSE KNum(RoundDiv(paid.n * 10000, d.n))

(* ((paid / denominator.replace(0, pd.NA)) * 100).fillna(0).round(2) *)
RatioCell(paid, denominator) ==
    LET d == ZeroToNA(denominator)
    IN  IF d.t = "null" THEN fillna(KNull, 0) ELSE KNum(RoundDiv(paid.n * 10000, d.n))

(* (later - earlier).dt.days: NaN when either date is NaT. *)
LagCell(later, earlier) ==
    IF later.t = "date" /\ earlier.t = "date" THEN KNum(100 * (later.n - earlier.n))
    ELSE KNull

(* str(x) of a text or a null cell. *)
StrOf(cell) == IF cell.t = "str" THEN cell.s ELSE <<"n", "a", "n">>

(* The cells of one column, by row; df[name] = cells. *)
Column(df, name) ==
    LET k == ColIndex(df.columns, name)
    IN  AsTuple([r \in DOMAIN df.rows |-> df.rows[r][k]])

SetColumn(df, name, cells) ==
    IF HasColumn(df, name)
    THEN LET k == ColIndex(df.columns, name)
         IN  [columns |-> df.columns,
              rows    |-> AsTuple([r \in DOMAIN df.rows |->
                                     [df.rows[r] EXCEPT ![k] = cells[r]]])]
    ELSE [columns |-> Append(df.columns, name),
          rows    |-> AsTuple([r \in DOMAIN df.rows |-> Append(df.rows[r], cells[r])])]

HasAll(df, names) == \A n \in names : HasColumn(df, n)

RECURSIVE SumCells(_)
SumCells(cells) ==
    IF cells = <<>> THEN 0 ELSE Head(cells).n + SumCells(Tail(cells))

(* ETL.py lines 239-241 *)
KpiCoerce(df) ==
    LET Step(d, col) == IF HasColumn(d, col)
                        THEN SetColumn(d, col, AsTuple([r \in DOMAIN d.rows |->
                                                  Coerce(Column(d, col)[r])]))
                        ELSE d
    IN  Step(Step(Step(Step(df, N_PaidAmount), N_BilledAmount), N_AdjustmentAmount),
             N_ARBalance)

(* ETL.py lines 243-244 *)
KpiChargeLag(df) ==
    IF HasAll(df, {N_DOS, N_ChargeEntryDate})
    THEN SetColumn(df, K_ChargeLag, AsTuple([r \in DOMAIN df.rows |->
            LagCell(Column(df, N_ChargeEntryDate)[r], Column(df, N_DOS)[r])]))
    ELSE df

(* ETL.py lines 246-247 *)
KpiBillingLag(df) ==
    IF HasAll(df, {N_ChargeEntryDate, N_PaymentEntryDate})
    THEN SetColumn(df, K_BillingLag, AsTuple([r \in DOMAIN df.rows |->
            LagCell(Column(df, N_PaymentEntryDate)[r], Column(df, N_ChargeEntryDate)[r])]))
    ELSE df

(* ETL.py lines 250-252, with the ratio left unfilled. *)
GcrCell_nofill(paid, billed) == RatioCell_nofill(Coerce(paid), Coerce(billed))

(* ETL.py lines 250-252, one row *)
GcrCell(paid, billed) == RatioCell(Coerce(paid), Coerce(billed))

(* ETL.py lines 249-252 *)
KpiGCR(df) ==
    IF HasAll(df, {N_PaidAmount, N_BilledAmount})
    THEN SetColumn(df, K_GCR, AsTuple([r \in DOMAIN df.rows |->
            GcrCell(Column(df, N_PaidAmount)[r], Column(df, N_BilledAmount)[r])]))
    ELSE df

(* ETL.py lines 255-259, with the ratio left unfilled. *)
NcrCell_nofill(paid, billed, adj) ==
    RatioCell_nofill(Coerce(paid), KNum(Coerce(billed).n - Coerce(adj).n))

(* ETL.py lines 255-259, one row: collectible = billed - adj *)
NcrCell(paid, billed, adj) ==
    RatioCell(Coerce(paid), KNum(Coerce(billed).n - Coerce(adj).n))

(* ETL.py lines 254-260 *)
KpiNCR(df) ==
    IF HasAll(df, {N_PaidAmount, N_BilledAmount, N_AdjustmentAmount})
    THEN LET cells == AsTuple([r \in DOMAIN df.rows |->
                        NcrCell(Column(df, N_PaidAmount)[r], Column(df, N_BilledAmount)[r],
                                Column(df, N_AdjustmentAmount)[r])])
         IN  SetColumn(SetColumn(df, K_NCR, cells), K_CCR, cells)
    ELSE df

(* ETL.py lines 262-265: round(AR Balance / (billed_sum / 30), 1), None    *)
(* for every row when billed_sum is 0.                                      *)
KpiARDays(df) ==
    IF HasAll(df, {N_ARBalance, N_BilledAmount})
    THEN LET billed_sum == SumCells(Column(df, N_BilledAmount))
         IN  SetColumn(df, K_ARDays, AsTuple([r \in DOMAIN df.rows |->
                IF billed_sum # 0
                THEN KNum(10 * RoundDiv(Column(df, N_ARBalance)[r].n * 300, billed_sum))
                ELSE KNull]))
    ELSE df

(* ETL.py lines 267-271 *)
KpiAR90(df) ==
    IF HasAll(df, {N_AgingRange, N_ARBalance})
    THEN SetColumn(df, K_AR90, AsTuple([r \in DOMAIN df.rows |->
            IF Contains(<<"9", "0">>, StrOf(Column(df, N_AgingRange)[r]))
            THEN Column(df, N_ARBalance)[r] ELSE KNum(0)]))
    ELSE df

(* ETL.py lines 273-276 *)
KpiDenialRate(df) ==
    IF HasColumn(df, N_FinancialStatus)
    THEN LET total_claims  == Len(df.rows)
             denied_claims == Cardinality({r \in DOMAIN df.rows :
                                 Contains(<<"d", "e", "n", "i", "e", "d">>,
                                          lower(StrOf(Column(df, N_FinancialStatus)[r])))})
         IN  SetColumn(df, K_DenialRate, AsTuple([r \in DOMAIN df.rows |->
                IF total_claims # 0
                THEN KNum(RoundDiv(denied_claims * 10000, total_claims))
                ELSE KNull]))
    ELSE df

(* Subtracting a column of texts from a datetime column raises TypeError:  *)
(* DOS is not a name containing "date", so it is never coerced.            *)
KpiRaises(df) ==
    /\ HasAll(df, {N_DOS, N_ChargeEntryDate})
    /\ \E r \in DOMAIN df.rows : Column(df, N_DOS)[r].t = "str"

(* ETL.py calculate_kpis *)
calculate_kpis(df) ==
    KpiDenialRate(KpiAR90(KpiARDays(KpiNCR(KpiGCR(KpiBillingLag(KpiChargeLag(
        KpiCoerce(df))))))))

(* Rows of merged tables: each varies some cells of an ordinary claim. *)
KpiColumns ==
    <<N_ClaimNo, N_DOS, N_ChargeEntryDate, N_BilledAmount, N_PaidAmount,
      N_PaymentEntryDate, N_AdjustmentAmount, N_ARBalance, N_AgingRange,
      N_FinancialStatus>>

KRow(dos, ced, billed, paid, ped, adj, bal, aging, fin) ==
    <<KNum(100), dos, ced, billed, paid, ped, adj, bal, aging, fin>>

T_NA ==
    <<"n", "/", "a">>
T_100 ==
    <<"1", "0", "0">>
T_0_30 ==
    <<"0", "-", "3", "0">>
T_90plus ==
    <<"9", "0", "+">>
T_Paid ==
    <<"P", "a", "i", "d">>
T_DENIED ==
    <<"D", "E", "N", "I", "E", "D">>
T_DeniedAppeal ==
    <<"D", "e", "n", "i", "e", "d", " ", "-", " ", "a", "p", "p", "e", "a", "l">>

AmountRows ==
    {KRow(KDate(1), KDate(3), billed, KNum(5000), KDate(10), KNum(2000), KNum(3000),
          KStr(T_0_30), KStr(T_Paid)) :
        billed \in {KNum(0), KNum(10000), KNum(30000), KNull, KStr(T_NA), KStr(T_100)}}
    \cup
    {KRow(KDate(1), KDate(3), billed, KNull, KDate(10), KNum(2000), KNum(3000),
          KStr(T_0_30), KStr(T_Paid)) :
        billed \in {KNum(0), KNum(10000)}}
    \cup
    {KRow(KDate(1), KDate(3), KNum(10000), KNum(5000), KDate(10), adj, KNum(3000),
          KStr(T_0_30), KStr(T_Paid)) :
        adj \in {KNum(10000), KStr(T_NA), KNum(12500)}}

DateRows ==
    {KRow(dos, ced, KNum(10000), KNum(5000), ped, KNum(2000), KNum(3000),
          KStr(T_0_30), KStr(T_Paid)) :
        dos \in {KDate(1)}, ced \in {KDate(3), KNull}, ped \in {KDate(10), KNull}}
    \cup
    {KRow(dos, KDate(3), KNum(10000), KNum(5000), KNull, KNum(2000), KNum(3000),
          KStr(T_0_30), KStr(T_Paid)) :
        dos \in {KNull, KStr(T_NA)}}

TextRows ==
    { KRow(KDate(1), KDate(3), KNum(10000), KNum(5000), KDate(10), KNum(2000), KNum(3000),
           KStr(T_90plus), KStr(T_DENIED)),
      KRow(KDate(1), KDate(3), KNum(10000), KNum(5000), KDate(10), KNum(2000), KNull,
           KNull, KNull),
      KRow(KDate(1), KDate(3), KNum(10000), KNum(5000), KDate(10), KNum(2000), KStr(T_NA),
           KStr(T_90plus), KStr(T_DeniedAppeal)) }

KpiRows == AmountRows \cup DateRows \cup TextRows

(* Columns a merged table may lack. *)
AbsentColumns ==
    { <<>>, <<N_BilledAmount>>, <<N_PaymentEntryDate>>, <<N_AdjustmentAmount>>,
      <<N_AgingRange>>, <<N_FinancialStatus>>, <<N_ARBalance>>, <<N_DOS>> }

KpiTables ==
    {Drop([columns |-> KpiColumns, rows |-> rows], absent) :
        rows \in UNION {[1..n -> KpiRows] : n \in 0..MaxRows},
        absent \in AbsentColumns}

KpIdle ==
    /\ k_pc = "idle"
    /\ k_in = <<>>
    /\ k_out = <<>>

KpInit ==
    /\ k_pc = "input"
    /\ k_in \in KpiTables
    /\ k_out = <<>>

(* merged = calculate_kpis(merged), ETL.py line 307.  The function assigns *)
(* into the DataFrame it was given and returns that same object: k_in      *)
(* keeps the table as it was handed over, k_out is the object after the    *)
(* call.                                                                   *)
CalculateKpis ==
    /\ k_pc = "input"
    /\ ~KpiRaises(k_in)
    /\ k_pc' = "done"
    /\ k_out' = calculate_kpis(k_in)
    /\ UNCHANGED k_in
    /\ UNCHANGED <<hdrVars, shVars, mgVars, piVars>>

(* calculate_kpis leaves through an exception *)
CalculateKpisRaises ==
    /\ k_pc = "input"
    /\ KpiRaises(k_in)
    /\ k_pc' = "raised"
    /\ UNCHANGED <<k_in, k_out>>
    /\ UNCHANGED <<hdrVars, shVars, mgVars, piVars>>

KpNext == CalculateKpis \/ CalculateKpisRaises

(* A cell that is 0, missing, or a text that is no number. *)
ZeroOrMissing(cell) ==
    \/ cell.t = "null"
    \/ cell.t = "num" /\ cell.n = 0
    \/ cell.t = "str" /\ \E k \in DOMAIN cell.s : ~IsDigit(cell.s[k])

(* The amount a cell stands for, 0 when it stands for none. *)
Amount(cell) ==
    IF cell.t = "num" THEN cell.n
    ELSE IF ZeroOrMissing(cell) THEN 0
    ELSE 100 * DecimalValue(cell.s)

(* C7: a row whose Billed Amount is 0, missing or non-numeric gets         *)
(* GCR (%) = 0, and a row whose Billed Amount minus Adjustment Amount is 0 *)
(* gets NCR (%) = CCR (%) = 0.                                             *)
C7_ZeroDenominator ==
    k_pc = "done" =>
        \A r \in DOMAIN k_in.rows :
            /\ (/\ HasAll(k_in, {N_PaidAmount, N_BilledAmount})
                /\ ZeroOrMissing(Column(k_in, N_BilledAmount)[r]))
               => (HasColumn(k_out, K_GCR) /\ Column(k_out, K_GCR)[r] = KNum(0))
            /\ (/\ HasAll(k_in, {N_PaidAmount, N_BilledAmount, N_AdjustmentAmount})
                /\ Amount(Column(k_in, N_BilledAmount)[r])
                       = Amount(Column(k_in, N_AdjustmentAmount)[r]))
               => (/\ HasAll(k_out, {K_NCR, K_CCR})
                   /\ Column(k_out, K_NCR)[r] = KNum(0)
                   /\ Column(k_out, K_CCR)[r] = KNum(0))

(* All three zero-denominator cases occurred in one table: a missing and a *)
(* zero Billed Amount with a non-zero Paid Amount, and Billed = Adjustment.*)
C7_Witness ==
    /\ k_pc = "done"
    /\ HasAll(k_in, {N_PaidAmount, N_BilledAmount, N_AdjustmentAmount})
    /\ Len(k_in.rows) = 2
    /\ Column(k_in, N_PaidAmount)[1] = KNum(5000)
    /\ Column(k_in, N_BilledAmount)[1] \in {KNum(0), KNull}
    /\ Column(k_out, K_GCR)[1] = KNum(0)
    /\ Column(k_in, N_BilledAmount)[2] = KNum(10000)
    /\ Column(k_in, N_AdjustmentAmount)[2] = KNum(10000)
    /\ Column(k_out, K_NCR)[2] = KNum(0)
    /\ Column(k_out, K_GCR)[2] = KNum(5000)

KpiColumnNames ==
    {K_ChargeLag, K_BillingLag, K_GCR, K_NCR, K_CCR, K_ARDays, K_AR90, K_DenialRate}

C17_OnlyAppendsColumns ==
    k_pc = "done" =>
        \A k \in DOMAIN k_in.columns :
            /\ HasColumn(k_out, k_in.columns[k])
            /\ \A r \in DOMAIN k_in.rows :
                  Column(k_out, k_in.columns[k])[r] = Column(k_in, k_in.columns[k])[r]
(***************************************************************************)
(* Final column names: ETL.py lines 308-309 and make_unique_columns.       *)
(***************************************************************************)

(* str.strip(): without the blanks at both ends *)
strip(s) ==
    LET keep == {i \in DOMAIN s : s[i] # " "}
    IN  IF keep = {} THEN <<>>
        ELSE SubSeq(s, CHOOSE i \in keep : \A j \in keep : i <= j,
                       CHOOSE i \in keep : \A j \in keep : j <= i)

(* str(n) of a count *)
RECURSIVE str(_)
str(n) ==
    IF n < 10 THEN <<Digits[n + 1]>>
    ELSE str(n \div 10) \o <<Digits[(n % 10) + 1]>>

(* `seen` is the set of pairs <<name, count>> of the names met so far. *)
Seen(seen, c) == \E p \in seen : p[1] = c

Count(seen, c) == (CHOOSE p \in seen : p[1] = c)[2]

RECURSIVE UniqueFrom(_, _, _, _)
UniqueFrom(columns, i, seen, out) ==
    IF i > Len(columns) THEN out
    ELSE LET c == columns[i]
         IN  IF ~Seen(seen, c)
             THEN UniqueFrom(columns, i + 1, seen \cup {<<c, 0>>}, Append(out, c))
             ELSE LET n == Count(seen, c) + 1
                  IN  UniqueFrom(columns, i + 1,
                                 (seen \ {<<c, n - 1>>}) \cup {<<c, n>>},
                                 Append(out, c \o <<"_">> \o str(n)))

make_unique_columns(columns) == UniqueFrom(columns, 1, {}, <<>>)

(* `[c.lower().strip() for c in merged.columns]` *)
LowerStripped(columns) ==
    AsTuple([i \in DOMAIN columns |-> strip(lower(columns[i]))])

(* Column names of merged tables. *)
CN_amount ==
    <<"a", "m", "o", "u", "n", "t">>
CN_Amount_ ==
    <<"A", "m", "o", "u", "n", "t", " ">>
CN_amount_1 ==
    <<"a", "m", "o", "u", "n", "t", "_", "1">>
CN_dos ==
    <<"D", "O", "S">>

ColumnNames == {CN_amount, CN_Amount_, CN_amount_1, CN_dos}

MaxCols == 4

ColumnLists == UNION {[1..n -> ColumnNames] : n \in 0..MaxCols}

ColInit ==
    /\ h_variant = "merged"
    /\ h_role = "Charges"
    /\ h_columns \in ColumnLists
    /\ h_cutoff = ScoreCutoff
    /\ h_new = <<>>

(* ETL.py line 308 *)
LowerStripColumns ==
    /\ h_variant = "merged"
    /\ h_variant' = "lowered"
    /\ h_new' = LowerStripped(h_columns)
    /\ UNCHANGED <<h_role, h_columns, h_cutoff>>
    /\ UNCHANGED <<shVars, mgVars, kpVars, piVars>>

(* ETL.py line 309 *)
MakeUniqueColumns ==
    /\ h_variant = "lowered"
    /\ h_variant' = "final"
    /\ h_new' = make_unique_columns(h_new)
    /\ UNCHANGED <<h_role, h_columns, h_cutoff>>
    /\ UNCHANGED <<shVars, mgVars, kpVars, piVars>>

ColNext == LowerStripColumns \/ MakeUniqueColumns

(* C15: the final column names are as many as the columns and pairwise    *)
(* distinct.                                                               *)
C15_DistinctColumns ==
    h_variant = "final" =>
        /\ Len(h_new) = Len(h_columns)
        /\ \A i, j \in DOMAIN h_new : i # j => h_new[i] # h_new[j]

(***************************************************************************)
(* Run persistence and archive: process_files / process_single_file of     *)
(* ETL.py, and the processing loop of final_2.py, over the same input,     *)
(* output and archive directories and the same SQLite file.                *)
(***************************************************************************)
F_jan ==
    <<"j", "a", "n", ".", "x", "l", "s", "x">>
F_Feb25 ==
    <<"F", "e", "b", " ", "2", "5", ".", "X", "L", "S", "X">>
F_notes ==
    <<"n", "o", "t", "e", "s", ".", "t", "x", "t">>

FileNames == {F_jan, F_Feb25, F_notes}

(* `f.lower().endswith(".xlsx")` *)
IsXlsx(f) ==
    LET l == lower(f)
    IN  Len(l) >= 5 /\ SubSeq(l, Len(l) - 4, Len(l)) = <<".", "x", "l", "s", "x">>

(* os.path.splitext(os.path.basename(path))[0] of a name with a dot *)
Stem(f) ==
    LET dots == {i \in DOMAIN f : f[i] = "."}
    IN  IF dots = {} THEN f
        ELSE SubSeq(f, 1, (CHOOSE i \in dots : \A j \in dots : j <= i) - 1)

(* final_2.py file_tag: the stem with spaces replaced by "_", lower-cased *)
FileTag(f) ==
    lower(AsTuple([i \in DOMAIN Stem(f) |-> IF Stem(f)[i] = " " THEN "_" ELSE Stem(f)[i]]))

(* datetime.now().strftime("%Y%m%d_%H%M%S") of the clock <<day, second>>:  *)
(* the text "date_time" as its two fields.  Each field is a fixed-width     *)
(* run of digits, so texts compare as their numbers do.                     *)
strftime(t) == <<t[1], t[2]>>

(* Names of export files, and of storage tables as their "_"-separated      *)
(* fields.                                                                  *)
CsvName(path) == <<Stem(path), "_with_kpis.csv">>
TableName(rid) == <<"claims", "with", "kpis">> \o rid
CleanCsvName(file) == <<FileTag(file), "_clean.csv">>
CleanTableName(file) == <<"claims", "clean", FileTag(file)>>

(* A directory of files or a database of tables: named contents; writing   *)
(* a name that exists replaces its content (to_csv, if_exists="replace").  *)
Put(store, name, content) ==
    {e \in store : e.name # name} \cup {[name |-> name, content |-> content]}

Names(store) == {e.name : e \in store}

(* Workbooks: whether the file opens, its sheet names, and the number of *)
(* rows its four sheets merge to.                                        *)
WB(sheets, rows) == [readable |-> TRUE, sheets |-> sheets, rows |-> rows]

Corrupt == [readable |-> FALSE, sheets |-> <<>>, rows |-> 0]

Workbooks ==
    { WB(<<SH_ChargesQ1, SH_PaymentQ1, SH_AdjustmentQ1, SH_PendingARQ1>>, 2),
      WB(<<SH_ChargesQ1, SH_PaymentQ1, SH_PendingARQ1>>, 1),
      WB(<<SH_Summary, SH_ChargesQ1, SH_PaymentAdjustments, SH_PendingARQ1>>, 3),
      WB(<<SH_Summary>>, 0),
      Corrupt }

NoResult == [success |-> FALSE, rows |-> 0, output |-> <<>>, error |-> "none", missing |-> {}]

Failure(error, missing) ==
    [success |-> FALSE, rows |-> 0, output |-> <<>>, error |-> error, missing |-> missing]

Success(rows, output) ==
    [success |-> TRUE, rows |-> rows, output |-> output, error |-> "none", missing |-> {}]

MaxRuns == 2

MaxClock == 1

MaxDay == 2

NoRun == <<0, 0>>

NoStats == <<"unset">>

NoRunsYet == <<"No runs yet">>

PiIdle ==
    /\ pc = "off"
    /\ input_dir = {} /\ archive_dir = {} /\ output_dir = {} /\ tables = {}
    /\ workbook = [f \in FileNames |-> Corrupt]
    /\ clock = <<1, 0>> /\ runs = 0 /\ run_id = NoRun
    /\ last_run_id = NoStats /\ batches = <<>>
    /\ listing = {} /\ file_path = <<>> /\ files_processed = 0
    /\ merged = 0 /\ move_attempts = <<>>
    /\ res = NoResult /\ response = NoResult

(* The directories before a run: some files in input/, nothing written. *)
FsInit ==
    /\ input_dir \in SUBSET FileNames
    /\ workbook \in [FileNames -> Workbooks]
    /\ \A f \in FileNames : (f \notin input_dir \/ ~IsXlsx(f)) => workbook[f] = Corrupt
    /\ archive_dir = {} /\ output_dir = {} /\ tables = {}
    /\ clock = <<1, 0>> /\ runs = 0 /\ run_id = NoRun
    /\ last_run_id = NoStats /\ batches = <<>>
    /\ listing = {} /\ file_path = <<>> /\ files_processed = 0
    /\ merged = 0 /\ move_attempts = <<>>
    /\ res = NoResult /\ response = NoResult

PiInit == pc = "idle" /\ FsInit

fsVars == <<input_dir, archive_dir, output_dir, tables>>
callVars == <<file_path, merged, move_attempts>>

(* The wall clock advances by a second between requests. *)
Tick ==
    /\ pc = "idle"
    /\ clock[2] < MaxClock
    /\ clock' = <<clock[1], clock[2] + 1>>
    /\ UNCHANGED <<pc, fsVars, workbook, batches, last_run_id, runs, run_id, listing, callVars,
                   files_processed, res, response>>
    /\ UNCHANGED <<hdrVars, shVars, mgVars, kpVars>>

(* ETL.py process_files lines 361-365 *)
ProcessFiles ==
    /\ pc = "idle"
    /\ runs < MaxRuns
    /\ runs' = runs + 1
    /\ run_id' = strftime(clock)
    /\ files_processed' = 0
    /\ listing' = {f \in input_dir : IsXlsx(f)}
    /\ pc' = "loop"
    /\ batches' = Append(batches,
                     [run_id  |-> strftime(clock),
                      results |-> [f \in {g \in input_dir : IsXlsx(g)} |-> "pending"]])
    /\ UNCHANGED <<fsVars, workbook, last_run_id, clock, callVars, res, response>>
    /\ UNCHANGED <<hdrVars, shVars, mgVars, kpVars>>

(* ETL.py line 367: the call of process_single_file on the next file, in   *)
(* whatever order os.listdir gave.                                          *)
CallProcessSingleFile ==
    /\ pc = "loop"
    /\ \E f \in listing :
          /\ file_path' = f
          /\ listing' = listing \ {f}
    /\ merged' = 0
    /\ move_attempts' = <<>>
    /\ res' = NoResult
    /\ pc' = "open"
    /\ UNCHANGED <<fsVars, workbook, batches, last_run_id, clock, runs, run_id, files_processed, response>>
    /\ UNCHANGED <<hdrVars, shVars, mgVars, kpVars>>

(* An exception that leaves process_single_file and ends the request. *)
Raise_abort(error, missing) ==
    /\ res' = Failure(error, missing)
    /\ pc' = "idle"

(* ETL.py lines 323-324: any exception becomes a failure result. *)
Raise(error, missing) ==
    /\ res' = Failure(error, missing)
    /\ pc' = "ret"

(* ETL.py lines 284-300: open the workbook, classify its sheets, and       *)
(* require the four roles.                                                 *)
OpenWorkbook ==
    /\ pc = "open"
    /\ LET wb == workbook[file_path]
       IN  IF ~wb.readable THEN Raise("BadZipFile", {})
           ELSE IF MissingRoles(Classify(wb.sheets)) # {}
                THEN Raise("Missing required sheets", MissingRoles(Classify(wb.sheets)))
                ELSE pc' = "merge" /\ UNCHANGED res
    /\ UNCHANGED <<fsVars, workbook, batches, last_run_id, clock, runs, run_id, listing, callVars,
                   files_processed, response>>
    /\ UNCHANGED <<hdrVars, shVars, mgVars, kpVars>>

(* ETL.py lines 302-309: the three joins, the KPIs and the column names;   *)
(* a sheet without the join key, or a DOS column of texts, raises.         *)
MergeAndScore ==
    /\ pc = "merge"
    /\ \/ /\ merged' = workbook[file_path].rows
          /\ pc' = "to_csv"
          /\ UNCHANGED res
       \/ /\ Raise("KeyError", {})
          /\ UNCHANGED merged
    /\ UNCHANGED <<fsVars, workbook, batches, last_run_id, clock, runs, run_id, listing, file_path,
                   move_attempts, files_processed, response>>
    /\ UNCHANGED <<hdrVars, shVars, mgVars, kpVars>>

(* ETL.py lines 311-314 *)
WriteCsv ==
    /\ pc = "to_csv"
    /\ \/ /\ output_dir' = Put(output_dir, CsvName(file_path),
                               [file |-> file_path, run_id |-> run_id, rows |-> merged])
          /\ pc' = "to_sql"
          /\ UNCHANGED res
       \/ /\ Raise("OSError", {})
          /\ UNCHANGED output_dir
    /\ UNCHANGED <<input_dir, archive_dir, tables, workbook, batches, last_run_id, clock, runs, run_id,
                   listing, callVars, files_processed, response>>
    /\ UNCHANGED <<hdrVars, shVars, mgVars, kpVars>>

(* ETL.py lines 316-317 *)
WriteTable ==
    /\ pc = "to_sql"
    /\ \/ /\ tables' = Put(tables, TableName(run_id),
                           [file |-> file_path, run_id |-> run_id, rows |-> merged])
          /\ pc' = "move"
          /\ UNCHANGED res
       \/ /\ Raise("OperationalError", {})
          /\ UNCHANGED tables
    /\ UNCHANGED <<input_dir, archive_dir, output_dir, workbook, batches, last_run_id, clock, runs, run_id,
                   listing, callVars, files_processed, response>>
    /\ UNCHANGED <<hdrVars, shVars, mgVars, kpVars>>

(* ETL.py lines 319-322: one shutil.move after a 0.2 s sleep; when another *)
(* process holds the file open it raises PermissionError.                  *)
MoveToArchive ==
    /\ pc = "move"
    /\ \/ /\ input_dir' = input_dir \ {file_path}
          /\ archive_dir' = archive_dir \cup {file_path}
          /\ move_attempts' = Append(move_attempts, "moved")
          /\ res' = Success(merged, CsvName(file_path))
          /\ pc' = "ret"
       \/ /\ move_attempts' = Append(move_attempts, "PermissionError")
          /\ Raise("PermissionError", {})
          /\ UNCHANGED <<input_dir, archive_dir>>
    /\ UNCHANGED <<output_dir, tables, workbook, batches, last_run_id, clock, runs, run_id, listing,
                   file_path, merged, files_processed, response>>
    /\ UNCHANGED <<hdrVars, shVars, mgVars, kpVars>>

(* ETL.py lines 368-372 *)
CountResult ==
    /\ pc = "ret"
    /\ files_processed' = IF res.success THEN files_processed + 1 ELSE files_processed
    /\ pc' = "loop"
    /\ batches' = [batches EXCEPT ![Len(batches)].results[file_path] =
                       IF res.success THEN "success" ELSE "failure"]
    /\ UNCHANGED <<fsVars, workbook, last_run_id, clock, runs, run_id, listing, callVars, res, response>>
    /\ UNCHANGED <<hdrVars, shVars, mgVars, kpVars>>

(* ETL.py lines 374-380 *)
ReturnStatus ==
    /\ pc = "loop"
    /\ listing = {}
    /\ response' = [success |-> TRUE, rows |-> files_processed, output |-> <<>>,
                  error |-> "none", missing |-> {}]
    /\ pc' = "idle"
    /\ UNCHANGED <<fsVars, workbook, batches, last_run_id, clock, runs, run_id, listing, callVars,
                   files_processed, res>>
    /\ UNCHANGED <<hdrVars, shVars, mgVars, kpVars>>

(* Midnight passes between requests. *)
NextDay ==
    /\ pc = "idle"
    /\ clock[1] < MaxDay
    /\ clock' = <<clock[1] + 1, 0>>
    /\ UNCHANGED <<pc, fsVars, workbook, batches, last_run_id, runs, run_id, listing,
                   callVars, files_processed, res, response>>
    /\ UNCHANGED <<hdrVars, shVars, mgVars, kpVars>>

(* The next export of a source system: the workbook of a file name that    *)
(* was archived arrives again in the intake directory, with one more row.  *)
DropFile ==
    /\ pc = "idle"
    /\ \E f \in archive_dir \ input_dir :
          /\ input_dir' = input_dir \cup {f}
          /\ workbook' = [workbook EXCEPT ![f].rows = @ + 1]
    /\ UNCHANGED <<archive_dir, output_dir, tables, batches, last_run_id, clock, pc,
                   runs, run_id, listing, callVars, files_processed, res, response>>
    /\ UNCHANGED <<hdrVars, shVars, mgVars, kpVars>>

(* ETL.py lines 391-396: the last field of every claims_with_kpis_ table   *)
(* name, and the greatest of them.                                         *)
RunIds(names) ==
    {<<n[Len(n)]>> : n \in {m \in names : Len(m) >= 3 /\ SubSeq(m, 1, 3) = <<"claims", "with", "kpis">>}}

(* Texts of digit fields of equal widths, in lexicographic order. *)
TextLeq(a, b) ==
    \/ a = b
    \/ \E i \in DOMAIN a :
          /\ i \in DOMAIN b
          /\ a[i] < b[i]
          /\ \A j \in 1..(i - 1) : a[j] = b[j]

LastRunId(names) ==
    IF RunIds(names) = {} THEN NoRunsYet
    ELSE CHOOSE r \in RunIds(names) : \A q \in RunIds(names) : TextLeq(q, r)

(* ETL.py get_etl_stats, lines 384-404 *)
GetEtlStats ==
    /\ pc = "idle"
    /\ last_run_id' = LastRunId(Names(tables))
    /\ pc' = "stats"
    /\ UNCHANGED <<fsVars, workbook, batches, clock, runs, run_id, listing, callVars,
                   files_processed, res, response>>
    /\ UNCHANGED <<hdrVars, shVars, mgVars, kpVars>>

(* The response of get_etl_stats has been sent. *)
StatsSent ==
    /\ pc = "stats"
    /\ pc' = "idle"
    /\ UNCHANGED <<fsVars, workbook, batches, last_run_id, clock, runs, run_id, listing,
                   callVars, files_processed, res, response>>
    /\ UNCHANGED <<hdrVars, shVars, mgVars, kpVars>>

PiNext ==
    \/ Tick \/ ProcessFiles \/ CallProcessSingleFile \/ OpenWorkbook \/ MergeAndScore
    \/ WriteCsv \/ WriteTable \/ MoveToArchive \/ CountResult \/ ReturnStatus

(* The service over days: one workbook in the intake directory at first,   *)
(* later exports of it, and requests for the statistics.                   *)
SvInit == PiInit /\ input_dir = {F_jan} /\ workbook[F_jan].readable

SvNext ==
    \/ PiNext \/ NextDay \/ DropFile \/ GetEtlStats \/ StatsSent

(***************************************************************************)
(* final_2.py, the batch script.                                           *)
(***************************************************************************)
ScInit == pc = "s_start" /\ FsInit

(* final_2.py lines 11, 41-43 *)
ScriptStart ==
    /\ pc = "s_start"
    /\ run_id' = strftime(clock)
    /\ files_processed' = 0
    /\ listing' = {f \in input_dir : IsXlsx(f)}
    /\ pc' = "s_loop"
    /\ UNCHANGED <<fsVars, workbook, batches, last_run_id, clock, runs, callVars, res, response>>
    /\ UNCHANGED <<hdrVars, shVars, mgVars, kpVars>>

(* final_2.py lines 42-49 *)
ScriptNextFile ==
    /\ pc = "s_loop"
    /\ \E f \in listing :
          /\ file_path' = f
          /\ listing' = listing \ {f}
    /\ merged' = 0
    /\ move_attempts' = <<>>
    /\ res' = NoResult
    /\ pc' = "s_open"
    /\ UNCHANGED <<fsVars, workbook, batches, last_run_id, clock, runs, run_id, files_processed, response>>
    /\ UNCHANGED <<hdrVars, shVars, mgVars, kpVars>>

(* final_2.py lines 129-130: the exception is logged, the loop goes on. *)
ScriptExcept(error) ==
    /\ res' = Failure(error, {})
    /\ pc' = "s_loop"

(* final_2.py lines 51-64 *)
ScriptOpen ==
    /\ pc = "s_open"
    /\ LET wb == workbook[file_path]
       IN  IF ~wb.readable THEN ScriptExcept("BadZipFile")
           ELSE IF \E r \in Roles : find_sheet(wb.sheets, Keyword[r]) = 0
                THEN /\ res' = Failure("Missing one or more required sheets, skipping file.", {})
                     /\ pc' = "s_loop"
                ELSE pc' = "s_load" /\ UNCHANGED res
    /\ UNCHANGED <<fsVars, workbook, batches, last_run_id, clock, runs, run_id, listing, callVars,
                   files_processed, response>>
    /\ UNCHANGED <<hdrVars, shVars, mgVars, kpVars>>

(* final_2.py lines 66-97 *)
ScriptLoadAndMerge ==
    /\ pc = "s_load"
    /\ \/ /\ merged' = workbook[file_path].rows
          /\ pc' = "s_csv"
          /\ UNCHANGED res
       \/ /\ ScriptExcept("KeyError")
          /\ UNCHANGED merged
    /\ UNCHANGED <<fsVars, workbook, batches, last_run_id, clock, runs, run_id, listing, file_path,
                   move_attempts, files_processed, response>>
    /\ UNCHANGED <<hdrVars, shVars, mgVars, kpVars>>

(* final_2.py lines 99-102 *)
ScriptCsv ==
    /\ pc = "s_csv"
    /\ \/ /\ output_dir' = Put(output_dir, CleanCsvName(file_path),
                               [file |-> file_path, run_id |-> run_id, rows |-> merged])
          /\ pc' = "s_sql"
          /\ UNCHANGED res
       \/ /\ ScriptExcept("OSError")
          /\ UNCHANGED output_dir
    /\ UNCHANGED <<input_dir, archive_dir, tables, workbook, batches, last_run_id, clock, runs, run_id,
                   listing, callVars, files_processed, response>>
    /\ UNCHANGED <<hdrVars, shVars, mgVars, kpVars>>

(* final_2.py lines 104-109 *)
ScriptSql ==
    /\ pc = "s_sql"
    /\ \/ /\ tables' = Put(tables, CleanTableName(file_path),
                           [file |-> file_path, run_id |-> run_id, rows |-> merged])
          /\ pc' = "s_move"
          /\ UNCHANGED res
       \/ /\ ScriptExcept("OperationalError")
          /\ UNCHANGED tables
    /\ UNCHANGED <<input_dir, archive_dir, output_dir, workbook, batches, last_run_id, clock, runs, run_id,
                   listing, callVars, files_processed, response>>
    /\ UNCHANGED <<hdrVars, shVars, mgVars, kpVars>>

(* The number of iterations of `for attempt in range(3)`. *)
MoveAttempts == 3

(* final_2.py lines 113-120: one iteration of the archive loop.  The move  *)
(* succeeds (break), raises PermissionError (sleep 1 s, next attempt), or  *)
(* raises another OSError, which leaves the loop for the handler of 129.   *)
ScriptMove ==
    /\ pc = "s_move"
    /\ Len(move_attempts) < MoveAttempts
    /\ \/ /\ input_dir' = input_dir \ {file_path}
          /\ archive_dir' = archive_dir \cup {file_path}
          /\ move_attempts' = Append(move_attempts, "moved")
          /\ pc' = "s_summary"
          /\ UNCHANGED res
       \/ /\ move_attempts' = Append(move_attempts, "PermissionError")
          /\ UNCHANGED <<input_dir, archive_dir, pc, res>>
       \/ /\ move_attempts' = Append(move_attempts, "OSError")
          /\ ScriptExcept("OSError")
          /\ UNCHANGED <<input_dir, archive_dir>>
    /\ UNCHANGED <<output_dir, tables, workbook, batches, last_run_id, clock, runs, run_id, listing,
                   file_path, merged, files_processed, response>>
    /\ UNCHANGED <<hdrVars, shVars, mgVars, kpVars>>

(* final_2.py lines 121-122: the else of the for loop *)
ScriptExhausted ==
    /\ pc = "s_move"
    /\ Len(move_attempts) = MoveAttempts
    /\ pc' = "s_summary"
    /\ UNCHANGED <<fsVars, workbook, batches, last_run_id, clock, runs, run_id, listing, callVars,
                   files_processed, res, response>>
    /\ UNCHANGED <<hdrVars, shVars, mgVars, kpVars>>

(* final_2.py lines 124-127 *)
ScriptSummary ==
    /\ pc = "s_summary"
    /\ files_processed' = files_processed + 1
    /\ res' = Success(merged, CleanCsvName(file_path))
    /\ pc' = "s_loop"
    /\ UNCHANGED <<fsVars, workbook, batches, last_run_id, clock, runs, run_id, listing, callVars, response>>
    /\ UNCHANGED <<hdrVars, shVars, mgVars, kpVars>>

(* final_2.py line 132 *)
ScriptEnd ==
    /\ pc = "s_loop"
    /\ listing = {}
    /\ response' = [success |-> TRUE, rows |-> files_processed, output |-> <<>>,
                  error |-> "none", missing |-> {}]
    /\ pc' = "s_end"
    /\ UNCHANGED <<fsVars, workbook, batches, last_run_id, clock, runs, run_id, listing, callVars,
                   files_processed, res>>
    /\ UNCHANGED <<hdrVars, shVars, mgVars, kpVars>>

ScNext ==
    \/ ScriptStart \/ ScriptNextFile \/ ScriptOpen \/ ScriptLoadAndMerge \/ ScriptCsv
    \/ ScriptSql \/ ScriptMove \/ ScriptExhausted \/ ScriptSummary \/ ScriptEnd

(* The roles for which no sheet name contains the keyword. *)
RolesWithoutSheet(sheet_names) == {r \in Roles : FirstSheetOf(sheet_names, r) = 0}

Last(seq) == seq[Len(seq)]

C9_BoundedRetry ==
    /\ Len(move_attempts) <= 3
    /\ \A i \in 2..Len(move_attempts) : move_attempts[i - 1] = "PermissionError"
    /\ (pc \notin {"move", "s_move"} /\ move_attempts # <<>>) =>
          \/ Last(move_attempts) = "moved"
          \/ /\ Len(move_attempts) = 3
             /\ \A i \in DOMAIN move_attempts : move_attempts[i] = "PermissionError"

(* C10: a call that wrote the export file and the storage table and whose  *)
(* archive move was blocked by a lock returns a success result with the    *)
(* row count and the output path.                                          *)
C10_ArchiveFailureNonFatal ==
    (/\ pc = "ret"
     /\ move_attempts # <<>>
     /\ Last(move_attempts) = "PermissionError"
     /\ [name |-> CsvName(file_path),
         content |-> [file |-> file_path, run_id |-> run_id, rows |-> merged]] \in output_dir
     /\ [name |-> TableName(run_id),
         content |-> [file |-> file_path, run_id |-> run_id, rows |-> merged]] \in tables)
    => res = Success(merged, CsvName(file_path))

(***************************************************************************)
(* Batches, storage history and statistics.                                *)
(***************************************************************************)
LastBatch == batches[Len(batches)]

Succeeded(b) == {f \in DOMAIN b.results : b.results[f] = "success"}

(* C11: every .xlsx workbook that was in the intake directory when the     *)
(* batch started is attempted, whatever the earlier workbooks did: while   *)
(* the batch runs the workbooks not yet attempted are exactly those still  *)
(* to come, and when it has returned none is left; files_processed is at   *)
(* every moment the number of workbooks whose call returned success, and   *)
(* so is the count of the response.                                        *)
C11_BatchIsolation ==
    batches # <<>> =>
        LET pending == {f \in DOMAIN LastBatch.results : LastBatch.results[f] = "pending"}
        IN  /\ pc = "idle" => pending = {}
            /\ pc = "loop" => pending = listing
            /\ pc \in {"open", "merge", "to_csv", "to_sql", "move", "ret"}
                   => pending = listing \cup {file_path}
            /\ files_processed = Cardinality(Succeeded(LastBatch))
            /\ pc = "idle" =>
                   /\ response.success
                   /\ response.rows = Cardinality(Succeeded(LastBatch))

(* A batch of two workbooks has returned: one failed, one succeeded. *)
C11_Witness ==
    /\ pc = "idle"
    /\ batches # <<>>
    /\ \E f, g \in DOMAIN LastBatch.results :
          LastBatch.results[f] = "failure" /\ LastBatch.results[g] = "success"
    /\ response.rows = 1

(* The rows of workbook f written by the run rid are in storage. *)
InStorage(f, rid) ==
    \E e \in tables : e.content.file = f /\ e.content.run_id = rid

(* C12: a storage table written for a successfully processed workbook is   *)
(* not replaced by the processing of another workbook: after a batch has    *)
(* returned, the rows of every workbook that succeeded in it are in         *)
(* storage.                                                                 *)
C12_StorageKeepsHistory ==
    (pc = "idle" /\ batches # <<>>) =>
        \A f \in Succeeded(LastBatch) : InStorage(f, LastBatch.run_id)

(* C13: any two invocations of process_files derive different run          *)
(* identifiers.                                                            *)
C13_DistinctRunIds ==
    \A i, j \in DOMAIN batches :
        i # j => batches[i].run_id # batches[j].run_id

(* C14: an export file, once created, keeps its content: no step deletes   *)
(* it or writes other rows under its name, also when a later run           *)
(* processes a workbook of the same file name.                             *)
C14_ExportNeverMutated ==
    [][\A e \in output_dir :
          \E n \in output_dir' :
              /\ n.name = e.name
              /\ n.content.file = e.content.file
              /\ n.content.rows = e.content.rows]_vars

(* C16: the workbook is moved only when its export file and its storage    *)
(* table are written; no workbook is in the archive while its rows are     *)
(* absent from storage; a success result implies that the workbook has     *)
(* left the intake directory.                                              *)
C16_ArchiveOrdering ==
    /\ pc = "move" =>
          /\ \E e \in output_dir : e.name = CsvName(file_path) /\ e.content.file = file_path
          /\ \E e \in tables : e.name = TableName(run_id) /\ e.content.file = file_path
    /\ \A f \in archive_dir :
          /\ \E e \in output_dir : e.content.file = f
          /\ \E e \in tables : e.content.file = f
    /\ (pc = "ret" /\ res.success) => file_path \notin input_dir

(* The run identifiers of the runs that have a claims_with_kpis table. *)
PersistedRuns == {e.content.run_id : e \in tables}

(* C18: the last_run_id of the statistics is the full run identifier of    *)
(* the most recent run that has a claims_with_kpis table, and "No runs     *)
(* yet" exactly when there is no such table.                               *)
C18_LastRunId ==
    pc = "stats" =>
        IF PersistedRuns = {}
        THEN last_run_id = NoRunsYet
        ELSE /\ last_run_id \in PersistedRuns
             /\ \A r \in PersistedRuns : TextLeq(r, last_run_id)

(***************************************************************************)
(* Specifications.  Spec is the service of ETL.py and SpecScript the batch *)
(* script of final_2.py; the others run one component on its inputs.       *)
(***************************************************************************)
Init == PiInit /\ HdrIdle /\ ShIdle /\ MgIdle /\ KpIdle

Next == PiNext

Spec == Init /\ [][Next]_vars

InitService == SvInit /\ HdrIdle /\ ShIdle /\ MgIdle /\ KpIdle

SpecService == InitService /\ [][SvNext]_vars

InitScript == ScInit /\ HdrIdle /\ ShIdle /\ MgIdle /\ KpIdle

SpecScript == InitScript /\ [][ScNext]_vars

InitHdr == HdrInit /\ ShIdle /\ MgIdle /\ KpIdle /\ PiIdle

SpecHdr == InitHdr /\ [][HdrNext]_vars

InitCols == ColInit /\ ShIdle /\ MgIdle /\ KpIdle /\ PiIdle

SpecCols == InitCols /\ [][ColNext]_vars

InitSheets == ShInit /\ HdrIdle /\ MgIdle /\ KpIdle /\ PiIdle

SpecSheets == InitSheets /\ [][ShNext]_vars

InitMerge == MgInit /\ HdrIdle /\ ShIdle /\ KpIdle /\ PiIdle

SpecMerge == InitMerge /\ [][MgNext]_vars

InitKpi == KpInit /\ HdrIdle /\ ShIdle /\ MgIdle /\ PiIdle

SpecKpi == InitKpi /\ [][KpNext]_vars

====
